---------------------------- MODULE Spec2Model ----------------------------
(***************************************************************************)
(* A model of src/cmd.py: an interactive shell to bulk move files, with a  *)
(* line-command front end (CommandlineMode) and a menu front end           *)
(* (MenuMode) over the same commands and the same MoverState.              *)
(*                                                                         *)
(* Representation.                                                         *)
(*   - A line of input is a sequence of one-character strings.             *)
(*   - A path is the sequence of its components below the root: <<>> is    *)
(*     "/", <<"a","b">> is "/a/b".  There are no symbolic links, so        *)
(*     os.path.realpath is lexical normalisation.                          *)
(*   - The value of a MenuListing choice is a sequence of strings (a path, *)
(*     a directory entry name, or the name of a command class).            *)
(*   - Python's None is the string "None".                                 *)
(***************************************************************************)
EXTENDS Integers, Sequences, FiniteSets, TLC

VARIABLES
    mode,              \* "c" CommandlineMode, "m" MenuMode, "step" a MenuListing on its own
    accepts_input,     \* BaseMode.accepts_input
    crashed,           \* the exception that escaped process_input and ended the process, or None
    fs,                \* the filesystem: path -> "dir" | "file" (absent paths are not in the domain)
    cd,                \* MoverState.cd, the process working directory
    marked,            \* MoverState.marked
    current_menu,      \* MenuMode.current_menu
    current_menu_gen,  \* MenuMode.current_menu_gen: the suspended generator
    out,               \* what the last process_input passed to respond()
    calls,             \* the os / os.path calls of the last process_input
    raised,            \* the exception the last step input or resumption raised, or None
    flips,             \* history: the row selections of the current MenuListing
    fed,               \* history: the step the last line was fed to, as its input left it
    flow,              \* history: marked and cd when the root menu was last built
    env_steps          \* history: how many changes the environment made to the filesystem

vars == <<mode, accepts_input, crashed, fs, cd, marked, current_menu,
          current_menu_gen, out, calls, raised, flips, fed, flow, env_steps>>

None == "None"

\* No step: the value of current_menu when it is None.
NoMenu == [kind |-> None]

\* No generator: the value of current_menu_gen where there is none.
NoGen == [kind |-> None, cmd |-> None, pc |-> None]

-----------------------------------------------------------------------------
(* Bounds of the model                                                     *)

MaxChoices == 3      \* the longest choices of a free-standing MenuListing
MaxPageSize == 2     \* the largest page_size of a free-standing MenuListing
MaxChosen == 2       \* the longest chosen a free-standing MenuListing is constructed with
MaxMarked == 2       \* the most paths marked at a time
MaxEnvSteps == 1     \* the most changes other processes make to the filesystem
MaxEntries == 5      \* touch creates no file once the filesystem holds this many entries

Values == {<<"u">>, <<"v">>}   \* the choice values of a free-standing MenuListing

\* The lines fed to a free-standing MenuListing.
StepLines ==
    { <<"0">>, <<"1">>, <<"2">>, <<"3">>, <<"4">>, <<"5">>, <<"6">>,
      <<"-", "1">>, <<"+", "2">>, <<"0", "1">>, <<"x">>, <<>> }

-----------------------------------------------------------------------------
(* Helpers on sequences and sets                                           *)

SeqToSet(s) == { s[i] : i \in 1..Len(s) }

SymDiff(A, B) == (A \ B) \cup (B \ A)

Min(a, b) == IF a < b THEN a ELSE b

\* All the sequences over S of length at most n.
SeqsUpTo(S, n) == UNION { [1..k -> S] : k \in 0..n }

\* The sequences that list the finite set S once each, in any order
\* (tuple(a_set): the iteration order of a Python set is unspecified).
Orderings(S) == { s \in [1..Cardinality(S) -> S] : SeqToSet(s) = S }

-----------------------------------------------------------------------------
(* int(line)                                                               *)

Digits == <<"0", "1", "2", "3", "4", "5", "6", "7", "8", "9">>

IsDigit(c) == \E i \in 1..Len(Digits) : Digits[i] = c

DigitVal(c) == (CHOOSE i \in 1..Len(Digits) : Digits[i] = c) - 1

RECURSIVE DigitsValue(_)
DigitsValue(s) ==
    IF s = <<>> THEN 0
    ELSE 10 * DigitsValue(SubSeq(s, 1, Len(s) - 1)) + DigitVal(s[Len(s)])

\* int(line): an optional sign and at least one decimal digit; anything else
\* raises ValueError (ok = FALSE).
int(line) ==
    LET signed == line # <<>> /\ line[1] \in {"-", "+"}
        body == IF signed THEN Tail(line) ELSE line
    IN  IF body # <<>> /\ \A i \in 1..Len(body) : IsDigit(body[i])
        THEN [ok |-> TRUE,
              val |-> IF signed /\ line[1] = "-" THEN 0 - DigitsValue(body)
                      ELSE DigitsValue(body)]
        ELSE [ok |-> FALSE, val |-> 0]

-----------------------------------------------------------------------------
(* tuple_leave_unique                                                      *)

RECURSIVE tuple_leave_unique(_)
tuple_leave_unique(tupl) ==
    IF tupl = <<>> THEN <<>>
    ELSE LET init == tuple_leave_unique(SubSeq(tupl, 1, Len(tupl) - 1))
             x == tupl[Len(tupl)]
         IN  IF x \in SeqToSet(init) THEN init ELSE Append(init, x)

\* (c for c in chosen if c != value)
RECURSIVE Without(_, _)
Without(s, value) ==
    IF s = <<>> THEN <<>>
    ELSE IF Head(s) = value THEN Without(Tail(s), value)
         ELSE <<Head(s)>> \o Without(Tail(s), value)

-----------------------------------------------------------------------------
(* MenuListing                                                             *)

Title(prefix, name) == [prefix |-> prefix, name |-> name]

Handler(h, value, inc) == [h |-> h, value |-> value, inc |-> inc]

NoHandler == Handler(None, <<>>, 0)

Item(mark, title) == [mark |-> mark, title |-> title]

ControlItem(text) == Item("", Title("", <<text>>))

InvalidInput == "Invalid input. Enter a number of the menu item you'd like to choose."

\* MenuListing.page_count
page_count(m) == (Len(m.choices) + m.page_size - 1) \div m.page_size

\* choices[offset:offset + page_size]
ChoicesSlice(m) ==
    LET offset == m.page * m.page_size
    IN  SubSeq(m.choices, offset + 1, Min(offset + m.page_size, Len(m.choices)))

\* The test of line 132 without "not self.read_only"
ShowDone_when_read_only(m) == ~m.single_choice

\* _render_page, line 132: whether the page has a "Done" row
ShowDone(m) == ~m.read_only /\ ~m.single_choice

\* _render_page, line 135: whether the page has a "Previous page" row
ShowPrevious(m) == m.page > 0

\* The test of line 138 with >= in place of >
ShowNext_off_by_one(m) == Len(m.choices) >= m.page * m.page_size + m.page_size

\* _render_page, line 138: whether the page has a "Next page" row
ShowNext(m) == Len(m.choices) > m.page * m.page_size + m.page_size

\* _render_page with the blocks of lines 135-137 and 138-140 exchanged
MenuListing_render_page_next_first(m) ==
    LET choices_slice == ChoicesSlice(m)
        row(c) ==
            IF m.single_choice \/ m.read_only THEN Item("", c.title)
            ELSE Item(IF c.value \in SeqToSet(m.chosen) THEN "[*]" ELSE "[ ]", c.title)
        rowItems == [i \in 1..Len(choices_slice) |-> row(choices_slice[i])]
        rowHandlers == [i \in 1..Len(choices_slice) |->
                            Handler("_toggle_choice", choices_slice[i].value, 0)]
        items == rowItems
                 \o (IF ShowDone(m) THEN <<ControlItem("Done")>> ELSE <<>>)
                 \o (IF ShowNext(m) THEN <<ControlItem("Next page")>> ELSE <<>>)
                 \o (IF ShowPrevious(m) THEN <<ControlItem("Previous page")>> ELSE <<>>)
                 \o (IF m.with_exit THEN <<ControlItem("Cancel and start over")>> ELSE <<>>)
        handlers == rowHandlers
                 \o (IF ShowDone(m) THEN <<Handler("_fulfill", <<>>, 0)>> ELSE <<>>)
                 \o (IF ShowNext(m) THEN <<Handler("_inc_page", <<>>, 1)>> ELSE <<>>)
                 \o (IF ShowPrevious(m) THEN <<Handler("_inc_page", <<>>, 0 - 1)>> ELSE <<>>)
                 \o (IF m.with_exit THEN <<Handler("_exit", <<>>, 0)>> ELSE <<>>)
    IN  [m EXCEPT !.page_items = items, !.page_handlers = handlers]

\* MenuListing._render_page
MenuListing_render_page(m) ==
    LET choices_slice == ChoicesSlice(m)
        row(c) ==
            IF m.single_choice \/ m.read_only THEN Item("", c.title)
            ELSE Item(IF c.value \in SeqToSet(m.chosen) THEN "[*]" ELSE "[ ]", c.title)
        rowItems == [i \in 1..Len(choices_slice) |-> row(choices_slice[i])]
        rowHandlers == [i \in 1..Len(choices_slice) |->
                            Handler("_toggle_choice", choices_slice[i].value, 0)]
        items == rowItems
                 \o (IF ShowDone(m) THEN <<ControlItem("Done")>> ELSE <<>>)
                 \o (IF ShowPrevious(m) THEN <<ControlItem("Previous page")>> ELSE <<>>)
                 \o (IF ShowNext(m) THEN <<ControlItem("Next page")>> ELSE <<>>)
                 \o (IF m.with_exit THEN <<ControlItem("Cancel and start over")>> ELSE <<>>)
        handlers == rowHandlers
                 \o (IF ShowDone(m) THEN <<Handler("_fulfill", <<>>, 0)>> ELSE <<>>)
                 \o (IF ShowPrevious(m) THEN <<Handler("_inc_page", <<>>, 0 - 1)>> ELSE <<>>)
                 \o (IF ShowNext(m) THEN <<Handler("_inc_page", <<>>, 1)>> ELSE <<>>)
                 \o (IF m.with_exit THEN <<Handler("_exit", <<>>, 0)>> ELSE <<>>)
    IN  [m EXCEPT !.page_items = items, !.page_handlers = handlers]

\* MenuListing.__init__ (the assert of line 106 is the caller's obligation:
\* every construction in this module has chosen empty when single_choice).
MenuListing(title, choices, single_choice, chosen, page_size, with_exit, read_only) ==
    MenuListing_render_page(
        [kind |-> "MenuListing",
         is_fulfilled |-> FALSE,
         title |-> title,
         choices |-> choices,
         single_choice |-> single_choice,
         chosen |-> chosen,
         page_size |-> page_size,
         with_exit |-> with_exit,
         read_only |-> read_only,
         error |-> None,
         page |-> 0,
         page_handlers |-> <<>>,
         page_items |-> <<>>])

\* MenuListing._toggle_choice with a tuple_leave_unique that keeps everything
MenuListing_toggle_choice_keep(m, value) ==
    IF m.read_only THEN m
    ELSE LET c == Append(m.chosen, value)
         IN  [m EXCEPT !.chosen = c,
                       !.is_fulfilled = IF m.single_choice THEN TRUE ELSE @]

\* MenuListing._toggle_choice without lines 156-157
MenuListing_toggle_choice_unfulfilled(m, value) ==
    IF m.read_only THEN m
    ELSE LET c == IF value \in SeqToSet(m.chosen)
                  THEN tuple_leave_unique(Without(m.chosen, value))
                  ELSE tuple_leave_unique(Append(m.chosen, value))
         IN  [m EXCEPT !.chosen = c]

\* MenuListing._toggle_choice
MenuListing_toggle_choice(m, value) ==
    IF m.read_only THEN m
    ELSE LET c == IF value \in SeqToSet(m.chosen)
                  THEN tuple_leave_unique(Without(m.chosen, value))
                  ELSE tuple_leave_unique(Append(m.chosen, value))
         IN  [m EXCEPT !.chosen = c,
                       !.is_fulfilled = IF m.single_choice THEN TRUE ELSE @]

\* MenuListing._inc_page
MenuListing_inc_page(m, inc) == [m EXCEPT !.page = @ + inc]

\* MenuListing._fulfill
MenuListing_fulfill(m) == [m EXCEPT !.is_fulfilled = TRUE]

\* The handler that input resolves line to, with Python's negative indices
\* left to wrap around (no "idx < 0" test).
MenuListing_handler_wrap(m, line) ==
    LET n == int(line)
        idx == n.val - 1
        len == Len(m.page_handlers)
    IN  IF ~n.ok THEN NoHandler
        ELSE IF idx >= 0 /\ idx < len THEN m.page_handlers[idx + 1]
        ELSE IF idx < 0 /\ idx >= 0 - len THEN m.page_handlers[len + idx + 1]
        ELSE NoHandler

\* The try block of MenuListing.input: the handler line resolves to, or
\* NoHandler when int() raises ValueError, idx < 0 raises ValueError, or
\* page_handlers[idx] raises IndexError.
MenuListing_handler(m, line) ==
    LET n == int(line)
        idx == n.val - 1
    IN  IF ~n.ok \/ idx < 0 \/ idx >= Len(m.page_handlers) THEN NoHandler
        ELSE m.page_handlers[idx + 1]

\* MenuListing.input, lines 189-195, handler being what the try block found:
\* [menu, raised, handler].  _exit raises before _render_page runs.
MenuListing_handle(m, handler) ==
    IF handler = NoHandler
    THEN [menu |-> [m EXCEPT !.error = InvalidInput], raised |-> None, handler |-> handler]
    ELSE IF handler.h = "_exit"
    THEN [menu |-> [m EXCEPT !.error = None], raised |-> "StartOverException",
          handler |-> handler]
    ELSE [menu |-> MenuListing_render_page(
                       CASE handler.h = "_toggle_choice" ->
                                MenuListing_toggle_choice([m EXCEPT !.error = None],
                                                          handler.value)
                         [] handler.h = "_fulfill" ->
                                MenuListing_fulfill([m EXCEPT !.error = None])
                         [] handler.h = "_inc_page" ->
                                MenuListing_inc_page([m EXCEPT !.error = None], handler.inc)),
          raised |-> None,
          handler |-> handler]

\* MenuListing.input
MenuListing_input(m, line) == MenuListing_handle(m, MenuListing_handler(m, line))

\* MenuListing.__str__: the lines of the rendered step.
MenuListing_str(m) ==
    [i \in 1..Len(m.title) |-> <<"title", m.title[i]>>]
    \o (IF Len(m.choices) > m.page_size
        THEN <<<<"Page", m.page + 1, page_count(m)>>>> ELSE <<>>)
    \o [i \in 1..Len(m.page_items) |-> <<"item", i, m.page_items[i]>>]
    \o (IF m.error # None THEN <<<<"Error", m.error>>>> ELSE <<>>)
    \o <<<<"Your choice?">>>>

\* The history of row selections since construction: chosen at construction
\* (base), the values whose rows were selected an odd number of times (odd),
\* and the values whose rows were selected at least twice (again).
FlipsInit(chosen) == [base |-> SeqToSet(chosen), odd |-> {}, again |-> {}]

FlipsAfter(f, handler) ==
    IF handler.h = "_toggle_choice"
    THEN [f EXCEPT !.odd = SymDiff(@, {handler.value}),
                   !.again = IF handler.value \in f.odd \cup f.again
                             THEN @ \cup {handler.value} ELSE @]
    ELSE f

-----------------------------------------------------------------------------
(* Paths and the filesystem (the os and os.path calls of the program)      *)

\* The names of directory entries in the order of their strings
\* ('.' < 'a' < 'b').  Every name is one character long, so that comparing
\* two paths as strings is comparing them component by component.
NameOrder == <<"..", "a", "b">>

NameIndex(n) == CHOOSE i \in 1..Len(NameOrder) : NameOrder[i] = n

\* p < q for the strings of two paths (or of two names)
RECURSIVE StrLess(_, _)
StrLess(p, q) ==
    IF q = <<>> THEN FALSE
    ELSE IF p = <<>> THEN TRUE
    ELSE IF Head(p) # Head(q) THEN NameIndex(Head(p)) < NameIndex(Head(q))
    ELSE StrLess(Tail(p), Tail(q))

\* sorted(S) for a set of paths
RECURSIVE SortedPaths(_)
SortedPaths(S) ==
    IF S = {} THEN <<>>
    ELSE LET m == CHOOSE x \in S : \A y \in S \ {x} : StrLess(x, y)
         IN  <<m>> \o SortedPaths(S \ {m})

Parent(p) == SubSeq(p, 1, Len(p) - 1)

IsPrefix(d, p) == Len(d) <= Len(p) /\ SubSeq(p, 1, Len(d)) = d

\* os.path.exists, os.path.isdir, os.path.isfile
exists(f, p) == p \in DOMAIN f

isdir(f, p) == p \in DOMAIN f /\ f[p] = "dir"

isfile(f, p) == p \in DOMAIN f /\ f[p] = "file"

\* os.path.realpath(os.path.join(cwd, path)): an argument whose first
\* component is "/" is absolute; ".." steps to the parent and stays at the
\* root.
RECURSIVE Normalize(_, _)
Normalize(acc, comps) ==
    IF comps = <<>> THEN acc
    ELSE IF Head(comps) = ".."
         THEN Normalize(IF acc = <<>> THEN <<>> ELSE Parent(acc), Tail(comps))
         ELSE Normalize(Append(acc, Head(comps)), Tail(comps))

realpath(cwd, path) ==
    IF path # <<>> /\ Head(path) = "/" THEN Normalize(<<>>, Tail(path))
    ELSE Normalize(cwd, path)

\* os.rename(src, dst) where dst does not exist and its parent is a
\* directory: the error it raises, or None.
rename_error(f, src, dst) ==
    IF ~exists(f, src) THEN "No such file or directory"
    ELSE IF IsPrefix(src, dst) THEN "Invalid argument"
    ELSE None

\* The filesystem after a successful os.rename(src, dst): src and all below
\* it are found under dst.
rename(f, src, dst) ==
    LET moved == { p \in DOMAIN f : IsPrefix(src, p) }
        to(p) == dst \o SubSeq(p, Len(src) + 1, Len(p))
        dom == (DOMAIN f \ moved) \cup { to(p) : p \in moved }
    IN  [q \in dom |->
            IF q \in DOMAIN f \ moved THEN f[q]
            ELSE f[CHOOSE p \in moved : to(p) = q]]

\* open(path, 'wt') on a path that does not exist: the error it raises, or None.
open_error(f, path) ==
    IF path = <<>> THEN "Is a directory"
    ELSE IF ~exists(f, Parent(path)) THEN "No such file or directory"
    ELSE IF ~isdir(f, Parent(path)) THEN "Not a directory"
    ELSE None

\* The filesystem after open(path, 'wt') created the file.
create(f, path) ==
    [q \in DOMAIN f \cup {path} |-> IF q = path THEN "file" ELSE f[q]]

\* The filesystem after another process removed path.
remove(f, path) == [q \in DOMAIN f \ {path} |-> f[q]]

-----------------------------------------------------------------------------
(* The session (MoverState and the filesystem), output and call records    *)

World(f, c, mk) == [fs |-> f, cd |-> c, marked |-> mk]

\* One respond() call, or one line of a MenuAlert message.
Msg(text, arg, detail) == [text |-> text, arg |-> arg, detail |-> detail, lines |-> <<>>]

\* One call of os or os.path.
Call(f, a, b) == [f |-> f, a |-> a, b |-> b]

\* What running a piece of the program did: the session after it, what it
\* passed to respond(), its os calls, and the exception it raised (or None).
Effect(w, o, c, exc) == [w |-> w, out |-> o, calls |-> c, raised |-> exc, error |-> Msg("", <<>>, "")]

\* An Effect that raised exc with the message err.
Raise(w, o, c, exc, err) == [w |-> w, out |-> o, calls |-> c, raised |-> exc, error |-> err]

-----------------------------------------------------------------------------
(* format_listing, ListCommand.list_dir, ShowmarkCommand.list_marked       *)

\* The order of sorted() on the (title, value) tuples of format_listing: by
\* the title string, "d <name>" or "f <name>".
TitleLess(x, y) ==
    IF x.title.prefix # y.title.prefix THEN x.title.prefix = "d"
    ELSE StrLess(x.title.name, y.title.name)

\* sorted(S) for a set of (title, value) tuples
RECURSIVE SortedListing(_)
SortedListing(S) ==
    IF S = {} THEN <<>>
    ELSE LET m == CHOOSE x \in S : \A y \in S \ {x} : TitleLess(x, y)
         IN  <<m>> \o SortedListing(S \ {m})

\* format_listing
format_listing(files, dirs) ==
    SortedListing({ [title |-> Title("d", d), value |-> d] : d \in dirs }
                  \cup { [title |-> Title("f", n), value |-> n] : n \in files })

\* ListCommand.list_dir: the first triple of os.walk(path); when os.walk
\* yields nothing (path is no directory) OSError is raised (ok = FALSE).
list_dir(f, path, only_dirs, with_parent) ==
    IF ~isdir(f, path) THEN [ok |-> FALSE, listing |-> <<>>]
    ELSE LET entries == { p \in DOMAIN f : p # <<>> /\ Parent(p) = path }
             dirs == { <<p[Len(p)]>> : p \in { e \in entries : f[e] = "dir" } }
             files == { <<p[Len(p)]>> : p \in { e \in entries : f[e] = "file" } }
         IN  [ok |-> TRUE,
              listing |-> format_listing(IF only_dirs THEN {} ELSE files,
                                         IF with_parent THEN dirs \cup {<<"..">>} ELSE dirs)]

\* ShowmarkCommand.list_marked: the titles, or <<>> for None.
list_marked(f, mk) ==
    LET files == { p \in mk : isfile(f, p) }
        dirs == { p \in mk : isdir(f, p) }
        listing == format_listing(files, dirs)
    IN  [i \in 1..Len(listing) |-> listing[i].title]

\* The os.path calls of list_marked.
list_marked_calls(mk) ==
    LET paths == SortedPaths(mk)
    IN  [i \in 1..Len(paths) |-> Call("isfile", paths[i], <<>>)]
        \o [i \in 1..Len(paths) |-> Call("isdir", paths[i], <<>>)]

-----------------------------------------------------------------------------
(* The commands                                                            *)

\* A running piece of the program that did nothing yet.
Start(w) == Effect(w, <<>>, <<>>, None)

\* Lines 279-281 without the test of line 279
change_dir_to_unchecked(w, next_cd) ==
    Effect([w EXCEPT !.cd = next_cd], <<>>,
           <<Call("getcwd", <<>>, <<>>), Call("realpath", next_cd, <<>>),
             Call("chdir", next_cd, <<>>)>>, None)

\* ChangeDirCommand.change_dir, lines 279-281, next_cd being the real path
change_dir_to(w, next_cd) ==
    IF ~isdir(w.fs, next_cd)
    THEN Raise(w, <<>>,
               <<Call("getcwd", <<>>, <<>>), Call("realpath", next_cd, <<>>),
                 Call("isdir", next_cd, <<>>)>>,
               "ValueError", Msg("Not an existing directory", next_cd, ""))
    ELSE Effect([w EXCEPT !.cd = next_cd], <<>>,
                <<Call("getcwd", <<>>, <<>>), Call("realpath", next_cd, <<>>),
                  Call("isdir", next_cd, <<>>), Call("chdir", next_cd, <<>>)>>, None)

\* ChangeDirCommand.change_dir
change_dir(w, next_cd) == change_dir_to(w, realpath(w.cd, next_cd))

\* MovemarkedCommand._move, lines 479-480: the target of the move of path.
\* The target name is the last component of path ("" for the root, so that
\* the target is the current directory itself).
target_path(w, path) == IF path = <<>> THEN w.cd ELSE Append(w.cd, path[Len(path)])

\* Lines 481-488 without the test of line 481: os.rename replaces an
\* existing target.
move_to_overwrite(w, path, target) ==
    IF rename_error(w.fs, path, target) # None
    THEN Effect(w, <<Msg("Unable to move path", path, rename_error(w.fs, path, target))>>,
                <<Call("getcwd", <<>>, <<>>), Call("rename", path, target)>>, None)
    ELSE Effect([w EXCEPT !.fs = rename([q \in { x \in DOMAIN w.fs : ~IsPrefix(target, x) }
                                           |-> w.fs[q]], path, target),
                          !.marked = @ \ {path}],
                <<Msg("Moved path", path, "")>>,
                <<Call("getcwd", <<>>, <<>>), Call("rename", path, target)>>, None)

\* Lines 481-488 without line 484: a moved path stays marked.
move_to_keeping_marked(w, path, target) ==
    IF exists(w.fs, target)
    THEN Effect(w, <<Msg("Unable to move path", path, "File exists")>>,
                <<Call("getcwd", <<>>, <<>>), Call("exists", target, <<>>)>>, None)
    ELSE IF rename_error(w.fs, path, target) # None
    THEN Effect(w, <<Msg("Unable to move path", path, rename_error(w.fs, path, target))>>,
                <<Call("getcwd", <<>>, <<>>), Call("exists", target, <<>>),
                  Call("rename", path, target)>>, None)
    ELSE Effect([w EXCEPT !.fs = rename(@, path, target)],
                <<Msg("Moved path", path, "")>>,
                <<Call("getcwd", <<>>, <<>>), Call("exists", target, <<>>),
                  Call("rename", path, target)>>, None)

\* MovemarkedCommand._move, lines 481-488, for one path and its target
move_to(w, path, target) ==
    IF exists(w.fs, target)
    THEN Effect(w, <<Msg("Unable to move path", path, "File exists")>>,
                <<Call("getcwd", <<>>, <<>>), Call("exists", target, <<>>)>>, None)
    ELSE IF rename_error(w.fs, path, target) # None
    THEN Effect(w, <<Msg("Unable to move path", path, rename_error(w.fs, path, target))>>,
                <<Call("getcwd", <<>>, <<>>), Call("exists", target, <<>>),
                  Call("rename", path, target)>>, None)
    ELSE Effect([w EXCEPT !.fs = rename(@, path, target), !.marked = @ \ {path}],
                <<Msg("Moved path", path, "")>>,
                <<Call("getcwd", <<>>, <<>>), Call("exists", target, <<>>),
                  Call("rename", path, target)>>, None)

\* What e did, then what one did.
Then(e, one) == Effect(one.w, e.out \o one.out, e.calls \o one.calls, None)

\* The loop of MovemarkedCommand._move over paths, in order.
RECURSIVE move_each(_, _)
move_each(e, paths) ==
    IF paths = <<>> THEN e
    ELSE move_each(Then(e, move_to(e.w, Head(paths), target_path(e.w, Head(paths)))),
                   Tail(paths))

\* MovemarkedCommand._move, run to its end.
move(w) ==
    move_each(Effect(w, <<Msg("Moving marked paths to", w.cd, "")>>,
                     <<Call("getcwd", <<>>, <<>>)>>, None),
              SortedPaths(w.marked))

\* TouchCommand._create_file: the error message of the OSError, or None.
create_file_error(w, path) ==
    IF exists(w.fs, path) THEN "File already exists" ELSE open_error(w.fs, path)

\* TouchCommand._create_file, lines 361-364, path being the real path
create_file_at(w, path) ==
    IF exists(w.fs, path)
    THEN Raise(w, <<>>, <<Call("realpath", path, <<>>), Call("exists", path, <<>>)>>,
               "OSError", Msg("File already exists", <<>>, ""))
    ELSE IF open_error(w.fs, path) # None
    THEN Raise(w, <<>>,
               <<Call("realpath", path, <<>>), Call("exists", path, <<>>),
                 Call("open", path, <<>>)>>,
               "OSError", Msg(open_error(w.fs, path), <<>>, ""))
    ELSE Effect([w EXCEPT !.fs = create(@, path)], <<>>,
                <<Call("realpath", path, <<>>), Call("exists", path, <<>>),
                  Call("open", path, <<>>)>>, None)

\* TouchCommand._create_file
create_file(w, path) == create_file_at(w, realpath(w.cd, path))

\* ChangeDirCommand._commandline_run, line 268, after change_dir did e
changed_dir(e) ==
    IF e.raised # None THEN e
    ELSE Effect(e.w, <<Msg("Changed current directory to", e.w.cd, "")>>,
                Append(e.calls, Call("getcwd", <<>>, <<>>)), None)

\* ChangeDirCommand._commandline_run
ChangeDirCommand_commandline_run(w, args) == changed_dir(change_dir(w, args[1]))

\* ListCommand._commandline_run, lines 298-302, for one path whose list_dir is l
listed_dir(path, l) ==
    [Msg("Listing directory", path, IF l.ok THEN "" ELSE "Not an existing dir")
     EXCEPT !.lines = [i \in 1..Len(l.listing) |-> l.listing[i].title]]

\* ListCommand._commandline_run: the text of its one respond() call, as one
\* record for each path listed.
ListCommand_commandline_run(w, args) ==
    Effect(w,
           [i \in 1..Len(args) |->
               listed_dir(args[i], list_dir(w.fs, realpath(w.cd, args[i]), FALSE, FALSE))],
           [i \in 1..Len(args) |-> Call("walk", realpath(w.cd, args[i]), <<>>)], None)

\* TouchCommand._commandline_run, lines 338-343, for one path, _create_file
\* having done one
touched(e, path, one) ==
    Effect(one.w,
           Append(e.out, IF one.raised # None
                         THEN Msg("Unable to create file", path, one.error.text)
                         ELSE Msg("Created an empty file", path, "")),
           e.calls \o one.calls, None)

\* TouchCommand._commandline_run
RECURSIVE TouchCommand_commandline_run(_, _)
TouchCommand_commandline_run(e, args) ==
    IF args = <<>> THEN e
    ELSE TouchCommand_commandline_run(
             touched(e, Head(args), create_file(e.w, Head(args))), Tail(args))

\* MarkCommand._commandline_run, lines 381-385, path being the real path
mark_path(e, path) ==
    IF ~exists(e.w.fs, path)
    THEN Effect(e.w, Append(e.out, Msg("Unable to mark path", path, "Path doesn't exists")),
                e.calls \o <<Call("realpath", path, <<>>), Call("exists", path, <<>>)>>, None)
    ELSE Effect([e.w EXCEPT !.marked = @ \cup {path}],
                Append(e.out, Msg("Marked", path, "")),
                e.calls \o <<Call("realpath", path, <<>>), Call("exists", path, <<>>)>>, None)

\* MarkCommand._commandline_run
RECURSIVE MarkCommand_commandline_run(_, _)
MarkCommand_commandline_run(e, args) ==
    IF args = <<>> THEN e
    ELSE MarkCommand_commandline_run(mark_path(e, realpath(e.w.cd, Head(args))), Tail(args))

\* UnmarkCommand._commandline_run, lines 402-406, path being the real path
unmark_path(e, path) ==
    IF path \notin e.w.marked
    THEN Effect(e.w, Append(e.out, Msg("Unable to unmark path", path, "Path isn't marked")),
                Append(e.calls, Call("realpath", path, <<>>)), None)
    ELSE Effect([e.w EXCEPT !.marked = @ \ {path}],
                Append(e.out, Msg("Unmarked", path, "")),
                Append(e.calls, Call("realpath", path, <<>>)), None)

\* UnmarkCommand._commandline_run
RECURSIVE UnmarkCommand_commandline_run(_, _)
UnmarkCommand_commandline_run(e, args) ==
    IF args = <<>> THEN e
    ELSE UnmarkCommand_commandline_run(unmark_path(e, realpath(e.w.cd, Head(args))),
                                       Tail(args))

\* ShowmarkCommand._commandline_run, lines 434-437, listed being list_marked
show_marked(listed) ==
    IF listed = <<>> THEN <<Msg("No paths marked", <<>>, "")>>
    ELSE <<[Msg("Marked paths", <<>>, "") EXCEPT !.lines = listed]>>

\* ShowmarkCommand._commandline_run
ShowmarkCommand_commandline_run(w, args) ==
    Effect(w, show_marked(list_marked(w.fs, w.marked)), list_marked_calls(w.marked), None)

\* MovemarkedCommand._commandline_run, e being what the loop over _move()
\* does: nothing returns after line 456, so the loop runs whether or not
\* anything is marked.
nothing_to_move_then(w, e) ==
    IF w.marked = {}
    THEN Effect(e.w, <<Msg("Nothing to move: no paths marked", <<>>, "")>> \o e.out,
                e.calls, None)
    ELSE e

\* MovemarkedCommand._commandline_run
MovemarkedCommand_commandline_run(w, args) == nothing_to_move_then(w, move(w))

\* HelpCommand._commandline_run
HelpCommand_commandline_run(w, args) ==
    Effect(w, <<Msg("Known commands", <<>>, "")>>, <<>>, None)

\* ExitCommand._commandline_run
ExitCommand_commandline_run(w, args) ==
    Raise(w, <<>>, <<>>, "ExitException", Msg("", <<>>, ""))

\* The names of the commands of commands_registry that are CommandlineCommands.
CommandNames == {"cd", "ls", "touch", "mark", "unmark", "showmark", "mvmark", "help", "exit"}

\* _commandline_args_parse that returns whatever it is given
commandline_args_parse_any(name, args) == None

\* _commandline_args_parse of the command called name: the message of the
\* ValueError it raises, or None.
commandline_args_parse(name, args) ==
    CASE name = "cd" ->
            IF Len(args) # 1 THEN "cd accepts just one arg: target directory" ELSE None
      [] name = "ls" -> None
      [] name \in {"touch", "mark", "unmark"} ->
            IF args = <<>> THEN "accepts at least one arg" ELSE None
      [] OTHER ->
            IF args # <<>> THEN "doesn't accept any argument" ELSE None

\* cmd._commandline_run(args) of the command called name, after
\* _commandline_args_parse (ListCommand's puts the current directory for no
\* argument; a cd that got through with no argument fails on args[0]).
commandline_run(name, w, args) ==
    CASE name = "cd" -> IF args = <<>> THEN Raise(w, <<>>, <<>>, "IndexError", Msg("", <<>>, ""))
                        ELSE ChangeDirCommand_commandline_run(w, args)
      [] name = "ls" ->
            ListCommand_commandline_run(w, IF args = <<>> THEN <<<<"/">> \o w.cd>> ELSE args)
      [] name = "touch" -> TouchCommand_commandline_run(Start(w), args)
      [] name = "mark" -> MarkCommand_commandline_run(Start(w), args)
      [] name = "unmark" -> UnmarkCommand_commandline_run(Start(w), args)
      [] name = "showmark" -> ShowmarkCommand_commandline_run(w, args)
      [] name = "mvmark" -> MovemarkedCommand_commandline_run(w, args)
      [] name = "help" -> HelpCommand_commandline_run(w, args)
      [] name = "exit" -> ExitCommand_commandline_run(w, args)

\* CommandlineCommand.from_commandline, for the command called name
from_commandline(name, w, args) ==
    IF commandline_args_parse(name, args) # None
    THEN Raise(w, <<>>, <<>>, "ValueError", Msg(commandline_args_parse(name, args), <<>>, ""))
    ELSE commandline_run(name, w, args)

-----------------------------------------------------------------------------
(* CommandlineMode                                                         *)

\* A line of CommandlineMode as shlex.split sees it: its tokens (each a
\* sequence of strings: the command name, or the components of a path
\* argument), or a line whose quotation is not closed.
CmdLine(tokens) == [quoting |-> "balanced", tokens |-> tokens]

UnbalancedLine == [quoting |-> "unbalanced", tokens |-> <<>>]

\* What process_input leaves: the session, the output, the calls, whether
\* input is still accepted, and the exception that escaped.
Outcome(e, accepts, exc) ==
    [w |-> e.w, out |-> e.out, calls |-> e.calls, accepts_input |-> accepts, crashed |-> exc]

\* BaseMode.close_input after e
close_input(e) == Effect(e.w, Append(e.out, Msg("exiting", <<>>, "")), e.calls, None)

\* CommandlineMode.process_input, lines 560-565, from_commandline having done e
command_done(e) ==
    CASE e.raised = None -> Outcome(e, TRUE, None)
      [] e.raised = "ValueError" ->
            Outcome(Effect(e.w, Append(e.out, Msg("Command invocation error",
                                                  e.error.arg, e.error.text)),
                           e.calls, None), TRUE, None)
      [] e.raised = "ExitException" -> Outcome(close_input(e), FALSE, None)
      [] OTHER -> Outcome(e, TRUE, e.raised)

\* CommandlineMode.process_input
CommandlineMode_process_input(w, line) ==
    IF line.quoting = "unbalanced"
    THEN Outcome(Start(w), TRUE, "ValueError")     \* shlex.split: No closing quotation
    ELSE IF line.tokens = <<>> THEN Outcome(Start(w), TRUE, None)
    ELSE IF Len(Head(line.tokens)) # 1 \/ Head(line.tokens)[1] \notin CommandNames
    THEN Outcome(Effect(w, <<Msg("Command not found. List known commands: help", <<>>, "")>>,
                        <<>>, None), TRUE, None)
    ELSE command_done(from_commandline(Head(line.tokens)[1], w, Tail(line.tokens)))

-----------------------------------------------------------------------------
(* MenuAlert, MenuConfirm, MenuPrompt                                      *)

PageSize == 7     \* the default page_size of MenuListing

\* MenuAlert.__init__: message is the lines of the text.
MenuAlert(message) ==
    [kind |-> "MenuAlert", is_fulfilled |-> FALSE, message |-> message]

\* MenuAlert.input
MenuAlert_input(m, line) == [m EXCEPT !.is_fulfilled = TRUE]

\* MenuConfirm.__init__
MenuConfirm(prompt) ==
    [kind |-> "MenuConfirm", is_fulfilled |-> FALSE, prompt |-> prompt,
     is_confirmed |-> None, error |-> None]

\* MenuConfirm.input (is_confirmed is "True", "False" or None)
MenuConfirm_input(m, line) ==
    IF line \notin {<<"y">>, <<"n">>}
    THEN [m EXCEPT !.error = "Enter either \"y\" or \"n\"."]
    ELSE [m EXCEPT !.is_confirmed = IF line = <<"y">> THEN "True" ELSE "False",
                   !.is_fulfilled = TRUE]

\* The result of a MenuPrompt that has none yet.
NoResult == <<None>>

\* MenuPrompt.__init__
MenuPrompt(prompt) ==
    [kind |-> "MenuPrompt", is_fulfilled |-> FALSE, prompt |-> prompt, result |-> NoResult]

\* MenuPrompt.input
MenuPrompt_input(m, line) == [m EXCEPT !.result = line, !.is_fulfilled = TRUE]

\* current_menu.input(line), whatever the step is: [menu, raised, handler]
MenuResponse_input(m, line) ==
    CASE m.kind = "MenuListing" -> MenuListing_input(m, line)
      [] m.kind = "MenuAlert" ->
            [menu |-> MenuAlert_input(m, line), raised |-> None, handler |-> NoHandler]
      [] m.kind = "MenuConfirm" ->
            [menu |-> MenuConfirm_input(m, line), raised |-> None, handler |-> NoHandler]
      [] m.kind = "MenuPrompt" ->
            [menu |-> MenuPrompt_input(m, line), raised |-> None, handler |-> NoHandler]

-----------------------------------------------------------------------------
(* The generators: MenuCommand.from_menu and the _menu_run of each command *)

\* A suspended generator: the command whose _menu_run it runs ("gen" for the
\* generator of create_root_menu before it started) and where it stands.
Generator(cmd, pc) == [kind |-> "generator", cmd |-> cmd, pc |-> pc]

\* The tuple() that process_input stores in current_menu_gen (line 596).
EmptyTuple == [kind |-> "tuple", cmd |-> None, pc |-> None]

\* next(current_menu_gen, None) yielded step and left the generator at g.
Yielded(step, g, e) == [step |-> step, gen |-> g, e |-> e]

\* next(current_menu_gen, None) found the generator exhausted: None.
Exhausted(e) == [step |-> NoMenu, gen |-> Generator(None, "finished"), e |-> e]

\* next(current_menu_gen, None) raised e.raised.
Raised(e) == [step |-> NoMenu, gen |-> Generator(None, "finished"), e |-> e]

\* The commands of commands_registry that have a docstring and are
\* MenuCommands, in order, as the (title, value) choices of the root menu.
RootChoices ==
    << [title |-> Title("", <<"Change current directory.">>), value |-> <<"ChangeDirCommand">>],
       [title |-> Title("", <<"List directory.">>), value |-> <<"ListCommand">>],
       [title |-> Title("", <<"Create new empty file.">>), value |-> <<"TouchCommand">>],
       [title |-> Title("", <<"Mark/unmark paths to move.">>), value |-> <<"ToggleMarkCommand">>],
       [title |-> Title("", <<"Move marked paths.">>), value |-> <<"MovemarkedCommand">>],
       [title |-> Title("", <<"Exit the program.">>), value |-> <<"ExitCommand">> ] >>

\* '* %s' % p for each p of marked
Starred(listed) ==
    [i \in 1..Len(listed) |->
        Title(IF listed[i].prefix = "d" THEN "* d" ELSE "* f", listed[i].name)]

\* The os calls of a list_dir(mover_state.cd, ...)
list_cd_calls(w) == <<Call("getcwd", <<>>, <<>>), Call("walk", w.cd, <<>>)>>

\* ChangeDirCommand._menu_run up to its yield, l being list_dir(cd, ...)
ChangeDirCommand_menu_listing(w, l) ==
    IF ~l.ok
    THEN Raised(Raise(w, <<>>, list_cd_calls(w), "OSError",
                      Msg("Not an existing dir", <<>>, "")))
    ELSE Yielded(MenuListing(<<Title("Select a directory to change to", <<>>)>>,
                             l.listing, TRUE, <<>>, PageSize, TRUE, FALSE),
                 Generator("ChangeDirCommand", "listing"),
                 Effect(w, <<>>, list_cd_calls(w), None))

\* ChangeDirCommand._menu_run up to its yield
ChangeDirCommand_menu_run(w) ==
    ChangeDirCommand_menu_listing(w, list_dir(w.fs, w.cd, TRUE, TRUE))

\* The generator ends after e: it raised, or it returned.
Returned(e) == IF e.raised # None THEN Raised(e) ELSE Exhausted(e)

\* ChangeDirCommand._menu_run after its yield
ChangeDirCommand_menu_resume(w, listing) == Returned(change_dir(w, listing.chosen[1]))

\* ListCommand._menu_run, l being list_dir(cd)
ListCommand_menu_listing(w, l) ==
    IF ~l.ok
    THEN Yielded(MenuAlert(<<Msg("Not an existing dir", <<>>, "")>>),
                 Generator("ListCommand", "alert"), Effect(w, <<>>, list_cd_calls(w), None))
    ELSE Yielded(MenuListing(<<Title("Listing", w.cd)>>, l.listing,
                             FALSE, <<>>, PageSize, TRUE, TRUE),
                 Generator("ListCommand", "listing"),
                 Effect(w, <<>>, Append(list_cd_calls(w), Call("getcwd", <<>>, <<>>)), None))

\* ListCommand._menu_run up to its yield
ListCommand_menu_run(w) == ListCommand_menu_listing(w, list_dir(w.fs, w.cd, FALSE, FALSE))

\* TouchCommand._menu_run up to its first yield
TouchCommand_menu_run(w) ==
    Yielded(MenuPrompt(Msg("Enter file name", <<>>, "")),
            Generator("TouchCommand", "prompt"), Start(w))

\* TouchCommand._menu_run, lines 352-357, _create_file(path) having done e
TouchCommand_menu_alert(path, e) ==
    Yielded(MenuAlert(<<IF e.raised # None
                        THEN Msg("Unable to create file", path, e.error.text)
                        ELSE Msg("Created an empty file", path, "")>>),
            Generator("TouchCommand", "alert"),
            Effect(e.w, <<>>, e.calls, None))

\* TouchCommand._menu_run after its first yield.  The line entered is the
\* path: a line of one character is the name of an entry.
TouchCommand_menu_resume(w, prompt) ==
    IF prompt.result = <<>>
    THEN Yielded(MenuAlert(<<Msg("Cannot create a file with empty name", <<>>, "")>>),
                 Generator("TouchCommand", "alert"), Start(w))
    ELSE TouchCommand_menu_alert(prompt.result, create_file(w, prompt.result))

\* ToggleMarkCommand._menu_run, line 419
real_paths(w, listing) ==
    [i \in 1..Len(listing) |->
        [title |-> listing[i].title, value |-> realpath(w.cd, listing[i].value)]]

\* ToggleMarkCommand._menu_run, lines 420-422, files_dirs being the choices
ToggleMarkCommand_menu_listing(w, chosen, files_dirs) ==
    Yielded(MenuListing(<<Title("Mark/unmark paths in", w.cd)>>, files_dirs,
                        FALSE, chosen, PageSize, TRUE, FALSE),
            Generator("ToggleMarkCommand", "listing"),
            Effect(w, <<>>,
                   list_cd_calls(w)
                   \o [i \in 1..Len(files_dirs) |-> Call("realpath", files_dirs[i].value, <<>>)]
                   \o <<Call("getcwd", <<>>, <<>>)>>, None))

\* ToggleMarkCommand._menu_run, l being list_dir(cd)
ToggleMarkCommand_menu_listed(w, chosen, l) ==
    IF ~l.ok
    THEN Yielded(MenuAlert(<<Msg("Not an existing dir", <<>>, "")>>),
                 Generator("ToggleMarkCommand", "alert"),
                 Effect(w, <<>>, list_cd_calls(w), None))
    ELSE ToggleMarkCommand_menu_listing(w, chosen, real_paths(w, l.listing))

\* ToggleMarkCommand._menu_run up to its yield, without chosen=marked at
\* line 421
ToggleMarkCommand_menu_run_unseeded(w, chosen) ==
    ToggleMarkCommand_menu_listed(w, <<>>, list_dir(w.fs, w.cd, FALSE, FALSE))

\* ToggleMarkCommand._menu_run up to its yield; chosen is tuple(marked), the
\* marked paths in the order the set iterates.
ToggleMarkCommand_menu_run(w, chosen) ==
    ToggleMarkCommand_menu_listed(w, chosen, list_dir(w.fs, w.cd, FALSE, FALSE))

\* ToggleMarkCommand._menu_run after its yield
ToggleMarkCommand_menu_resume(w, listing) ==
    Exhausted(Effect([w EXCEPT !.marked = SeqToSet(listing.chosen)], <<>>, <<>>, None))

\* MovemarkedCommand._menu_run, lines 464-469, listed being list_marked
MovemarkedCommand_menu_confirm(w, listed) ==
    IF listed = <<>>     \* assert marked
    THEN Raised(Raise(w, <<>>, list_marked_calls(w.marked), "AssertionError",
                      Msg("", <<>>, "")))
    ELSE Yielded(MenuConfirm([Msg("Are you sure you want to move the following paths to",
                                  w.cd, "") EXCEPT !.lines = Starred(listed)]),
                 Generator("MovemarkedCommand", "confirmation"),
                 Effect(w, <<>>, Append(list_marked_calls(w.marked),
                                        Call("getcwd", <<>>, <<>>)), None))

\* MovemarkedCommand._menu_run up to its first yield
MovemarkedCommand_menu_run(w) ==
    IF w.marked = {}
    THEN Yielded(MenuAlert(<<Msg("Nothing to move: no paths marked", <<>>, "")>>),
                 Generator("MovemarkedCommand", "alert"), Start(w))
    ELSE MovemarkedCommand_menu_confirm(w, list_marked(w.fs, w.marked))

\* MovemarkedCommand._menu_run, lines 472-473, _move() having done e
MovemarkedCommand_menu_alert(e) ==
    Yielded(MenuAlert(e.out), Generator("MovemarkedCommand", "alert"),
            Effect(e.w, <<>>, e.calls, None))

\* MovemarkedCommand._menu_run after its first yield
MovemarkedCommand_menu_resume(w, confirmation) ==
    IF confirmation.is_confirmed # "True" THEN Exhausted(Start(w))
    ELSE MovemarkedCommand_menu_alert(move(w))

\* ExitCommand._menu_run up to its yield
ExitCommand_menu_run(w) ==
    Yielded(MenuConfirm(Msg("Are you sure you want to exit the program?", <<>>, "")),
            Generator("ExitCommand", "confirm"), Start(w))

\* ExitCommand._menu_run after its yield, without the test of line 515
ExitCommand_menu_resume_unconfirmed(w, confirm) ==
    Raised(Raise(w, <<>>, <<>>, "ExitException", Msg("", <<>>, "")))

\* ExitCommand._menu_run after its yield
ExitCommand_menu_resume(w, confirm) ==
    IF confirm.is_confirmed = "True"
    THEN Raised(Raise(w, <<>>, <<>>, "ExitException", Msg("", <<>>, "")))
    ELSE Exhausted(Start(w))

\* command.from_menu(mover_state) up to the first yield of _menu_run
from_menu(command, w, order) ==
    CASE command = "ChangeDirCommand" -> ChangeDirCommand_menu_run(w)
      [] command = "ListCommand" -> ListCommand_menu_run(w)
      [] command = "TouchCommand" -> TouchCommand_menu_run(w)
      [] command = "ToggleMarkCommand" -> ToggleMarkCommand_menu_run(w, order)
      [] command = "MovemarkedCommand" -> MovemarkedCommand_menu_run(w)
      [] command = "ExitCommand" -> ExitCommand_menu_run(w)

\* next(current_menu_gen, None) when current_menu_gen is the tuple of line
\* 596: a tuple is not an iterator, and next raises TypeError.
next_of_tuple(w) == Raised(Raise(w, <<>>, <<>>, "TypeError", Msg("", <<>>, "")))

\* next(current_menu_gen, None): g is current_menu_gen, step the step the
\* generator yielded last (now fulfilled), order the iteration order of
\* marked when the generator reads it.  The generator of create_root_menu
\* starts with command = menu.chosen[0].
next(g, step, w, order) ==
    IF g.kind = "tuple" THEN next_of_tuple(w)
    ELSE CASE g.pc = "start" -> from_menu(step.chosen[1][1], w, order)
           [] g.pc = "listing" /\ g.cmd = "ChangeDirCommand" ->
                 ChangeDirCommand_menu_resume(w, step)
           [] g.pc = "listing" /\ g.cmd = "ToggleMarkCommand" ->
                 ToggleMarkCommand_menu_resume(w, step)
           [] g.pc = "prompt" -> TouchCommand_menu_resume(w, step)
           [] g.pc = "confirmation" -> MovemarkedCommand_menu_resume(w, step)
           [] g.pc = "confirm" -> ExitCommand_menu_resume(w, step)
           [] OTHER -> Exhausted(Start(w))

-----------------------------------------------------------------------------
(* MenuMode                                                                *)

\* The title of the root menu, listed being list_marked
RootTitle(w, listed) ==
    <<Title("Current dir:", w.cd)>>
    \o (IF listed # <<>> THEN <<Title("Marked paths:", <<>>)>> \o Starred(listed) ELSE <<>>)

\* The MenuListing that MenuMode.create_root_menu builds
RootMenu(w) ==
    MenuListing(RootTitle(w, list_marked(w.fs, w.marked)), RootChoices,
                TRUE, <<>>, PageSize, FALSE, FALSE)

\* The generator that MenuMode.create_root_menu builds
RootGen == Generator("gen", "start")

\* The os calls of MenuMode.create_root_menu
create_root_menu_calls(w) == <<Call("getcwd", <<>>, <<>>)>> \o list_marked_calls(w.marked)

\* What MenuMode.process_input leaves.
\*   menu, gen: current_menu and current_menu_gen;
\*   fed: the step the line was fed to, as its input left it;
\*   fresh: whether current_menu is a step built during this call;
\*   raised: the exception raised inside the try block, or None;
\*   crashed: the exception that escaped process_input, or None.
MenuOutcome(menu, g, step, handler, fresh, e, exc, accepts, escaped) ==
    [menu |-> menu, gen |-> g, fed |-> step, handler |-> handler, fresh |-> fresh,
     w |-> e.w, out |-> e.out, calls |-> e.calls,
     raised |-> exc, accepts_input |-> accepts, crashed |-> escaped]

\* Lines 597-598: the root menu replaces a current_menu that is None.
WithRootMenu(o) ==
    IF o.menu = NoMenu /\ o.crashed = None
    THEN [o EXCEPT !.menu = RootMenu(o.w), !.gen = RootGen, !.fresh = TRUE,
                   !.calls = @ \o create_root_menu_calls(o.w)]
    ELSE o

\* Line 589 and the except clauses, i being what current_menu.input(line)
\* left and n what next(current_menu_gen, None) did
after_next(i, n) ==
    CASE n.e.raised = None ->
            MenuOutcome(n.step, n.gen, i.menu, i.handler, n.step # NoMenu,
                        n.e, None, TRUE, None)
      [] n.e.raised = "ExitException" ->
            MenuOutcome(i.menu, n.gen, i.menu, i.handler, FALSE,
                        close_input(n.e), n.e.raised, FALSE, None)
      [] n.e.raised = "ValueError" ->
            MenuOutcome(MenuAlert(<<Msg("Command invocation error",
                                        n.e.error.arg, n.e.error.text)>>),
                        EmptyTuple, i.menu, i.handler, TRUE, n.e, n.e.raised, TRUE, None)
      [] OTHER ->
            MenuOutcome(i.menu, n.gen, i.menu, i.handler, FALSE,
                        n.e, n.e.raised, TRUE, n.e.raised)

\* Lines 587-596 with an except clause for StartOverException that keeps the
\* selection of the listing as the marked set before it drops the step
after_input_keeping_selection(g, w, order, i) ==
    IF i.raised = "StartOverException"
    THEN MenuOutcome(NoMenu, g, i.menu, i.handler, FALSE,
                     Start([w EXCEPT !.marked = SeqToSet(i.menu.chosen)]),
                     i.raised, TRUE, None)
    ELSE IF ~i.menu.is_fulfilled
    THEN MenuOutcome(i.menu, g, i.menu, i.handler, FALSE, Start(w), None, TRUE, None)
    ELSE after_next(i, next(g, i.menu, w, order))

\* Lines 587-596 without lines 588-589: a fulfilled step stays current
after_input_without_next(g, w, order, i) ==
    IF i.raised = "StartOverException"
    THEN MenuOutcome(NoMenu, g, i.menu, i.handler, FALSE, Start(w), i.raised, TRUE, None)
    ELSE MenuOutcome(i.menu, g, i.menu, i.handler, FALSE, Start(w), None, TRUE, None)

\* Lines 587-596, i being what current_menu.input(line) left
after_input(g, w, order, i) ==
    IF i.raised = "StartOverException"
    THEN MenuOutcome(NoMenu, g, i.menu, i.handler, FALSE, Start(w), i.raised, TRUE, None)
    ELSE IF ~i.menu.is_fulfilled
    THEN MenuOutcome(i.menu, g, i.menu, i.handler, FALSE, Start(w), None, TRUE, None)
    ELSE after_next(i, next(g, i.menu, w, order))

\* MenuMode.process_input
MenuMode_process_input(menu, g, w, line, order) ==
    WithRootMenu(after_input(g, w, order, MenuResponse_input(menu, line)))

-----------------------------------------------------------------------------
(* A MenuListing on its own: any choices, page size and flags, fed any     *)
(* lines.                                                                  *)

ChoiceOf(v) == [title |-> Title("", v), value |-> v]

InitListing ==
    /\ mode = "step"
    /\ accepts_input = TRUE
    /\ crashed = None
    /\ fs = <<>>
    /\ cd = <<>>
    /\ marked = {}
    /\ \E vs \in SeqsUpTo(Values, MaxChoices),
          page_size \in 1..MaxPageSize,
          single_choice \in BOOLEAN, with_exit \in BOOLEAN, read_only \in BOOLEAN,
          chosen \in SeqsUpTo(Values, MaxChosen) :
            /\ single_choice => chosen = <<>>
            /\ current_menu =
                  MenuListing(<<Title("", <<"title">>)>>,
                              [i \in 1..Len(vs) |-> ChoiceOf(vs[i])],
                              single_choice, chosen, page_size, with_exit, read_only)
            /\ flips = FlipsInit(chosen)
    /\ current_menu_gen = NoGen
    /\ out = <<>>
    /\ calls = <<>>
    /\ raised = None
    /\ fed = NoMenu
    /\ flow = [marked |-> {}, cd |-> <<>>]
    /\ env_steps = 0

\* listing.input(line)
StepInput(line) ==
    /\ mode = "step"
    /\ LET r == MenuListing_input(current_menu, line)
       IN  /\ current_menu' = r.menu
           /\ raised' = r.raised
           /\ flips' = FlipsAfter(flips, r.handler)
    /\ UNCHANGED <<mode, accepts_input, crashed, fs, cd, marked,
                   current_menu_gen, out, calls, fed, flow, env_steps>>

NextListing == \E line \in StepLines : StepInput(line)

SpecListing == InitListing /\ [][NextListing]_vars

-----------------------------------------------------------------------------
(* A session: main() with one of the two modes                             *)

\* The filesystem at the start: /a (a directory holding the file /a/a) and
\* the empty directory /b.
InitFs ==
    [p \in {<<>>, <<"a">>, <<"a", "a">>, <<"b">>} |->
        IF p = <<"a", "a">> THEN "file" ELSE "dir"]

\* The argument lists of the lines of CommandlineMode that start with name:
\* every command with too few, enough and too many arguments, over the path
\* arguments a, b and ".." .
ArgLists(name) ==
    CASE name = "cd" -> {<<>>, <<<<"a">>>>, <<<<"b">>>>, <<<<"..">>>>, <<<<"a">>, <<"b">>>>}
      [] name = "ls" -> {<<>>, <<<<"a">>>>, <<<<"a", "a">>, <<"b">>>>}
      [] name = "touch" -> {<<>>, <<<<"b">>>>}
      [] name = "mark" -> {<<>>, <<<<"a">>>>, <<<<"b">>>>}
      [] name = "unmark" -> {<<>>, <<<<"a">>>>}
      [] name = "nosuch" -> {<<>>}
      [] OTHER -> {<<>>, <<<<"a">>>>}

\* The lines of CommandlineMode: every command name and one unknown name with
\* its argument lists, the empty line, and a line with an open quotation.
CommandLines ==
    UNION { { CmdLine(<<<<name>>>> \o args) : args \in ArgLists(name) } :
              name \in CommandNames \cup {"nosuch"} }
    \cup {CmdLine(<<>>), UnbalancedLine}

\* The lines of MenuMode.
MenuLines ==
    { <<"0">>, <<"1">>, <<"2">>, <<"3">>, <<"4">>, <<"5">>, <<"6">>,
      <<"y">>, <<"n">>, <<"a">>, <<>> }

\* The lines entered at a MenuPrompt: the name of an entry, or nothing.
PromptLines == { <<"a">>, <<>> }

InitSession ==
    /\ accepts_input = TRUE
    /\ crashed = None
    /\ fs = InitFs
    /\ cd = <<>>
    /\ marked = {}
    /\ out = <<>>
    /\ calls = <<>>
    /\ raised = None
    /\ fed = NoMenu
    /\ flips = FlipsInit(<<>>)
    /\ flow = [marked |-> {}, cd |-> <<>>]
    /\ env_steps = 0

\* CommandlineMode()
InitLine ==
    /\ mode = "c"
    /\ InitSession
    /\ current_menu = NoMenu
    /\ current_menu_gen = NoGen

\* MenuMode(): create_root_menu
InitMenu ==
    /\ mode = "m"
    /\ InitSession
    /\ current_menu = RootMenu(World(InitFs, <<>>, {}))
    /\ current_menu_gen = RootGen

Running == accepts_input /\ crashed = None

\* The session after CommandlineMode.process_input left o.
LineDone(o) ==
    /\ Cardinality(DOMAIN o.w.fs) <= MaxEntries
    /\ Cardinality(o.w.marked) <= MaxMarked
    /\ fs' = o.w.fs
    /\ cd' = o.w.cd
    /\ marked' = o.w.marked
    /\ out' = o.out
    /\ calls' = o.calls
    /\ accepts_input' = o.accepts_input
    /\ crashed' = o.crashed

\* main: a line is read and CommandlineMode.process_input(line) runs.
LineInput(line) ==
    /\ mode = "c" /\ Running
    /\ \E o \in {CommandlineMode_process_input(World(fs, cd, marked), line)} : LineDone(o)
    /\ UNCHANGED <<mode, current_menu, current_menu_gen, raised, flips, fed, flow, env_steps>>

\* The orders in which ToggleMarkCommand may find marked when line starts it.
OrdersFor(line) ==
    IF /\ current_menu.kind = "MenuListing"
       /\ current_menu_gen = RootGen
       /\ MenuListing_handler(current_menu, line).value = <<"ToggleMarkCommand">>
    THEN Orderings(marked)
    ELSE {<<>>}

\* The session after MenuMode.process_input left o.
MenuDone(o) ==
    /\ Cardinality(DOMAIN o.w.fs) <= MaxEntries
    /\ Cardinality(o.w.marked) <= MaxMarked
    /\ current_menu' = o.menu
    /\ current_menu_gen' = o.gen
    /\ fs' = o.w.fs
    /\ cd' = o.w.cd
    /\ marked' = o.w.marked
    /\ out' = o.out
    /\ calls' = o.calls
    /\ raised' = o.raised
    /\ accepts_input' = o.accepts_input
    /\ crashed' = o.crashed
    /\ fed' = o.fed
    /\ flips' = IF o.fresh /\ o.menu.kind = "MenuListing" THEN FlipsInit(o.menu.chosen)
                ELSE IF o.fresh THEN FlipsInit(<<>>)
                ELSE FlipsAfter(flips, o.handler)
    /\ flow' = IF o.fresh /\ o.gen = RootGen
               THEN [marked |-> o.w.marked, cd |-> o.w.cd] ELSE flow

\* main: a line is read and MenuMode.process_input(line) runs.
MenuInput(line) ==
    /\ mode = "m" /\ Running
    /\ current_menu.kind = "MenuPrompt" => line \in PromptLines
    /\ \E order \in OrdersFor(line) :
          MenuDone(MenuMode_process_input(current_menu, current_menu_gen,
                                          World(fs, cd, marked), line, order))
    /\ UNCHANGED <<mode, env_steps>>

\* main: next(sys.stdin) raises StopIteration or KeyboardInterrupt, and
\* close_input() runs.
EndOfInput ==
    /\ mode \in {"c", "m"} /\ Running
    /\ accepts_input' = FALSE
    /\ out' = <<Msg("exiting", <<>>, "")>>
    /\ calls' = <<>>
    /\ UNCHANGED <<mode, crashed, fs, cd, marked, current_menu, current_menu_gen,
                   raised, flips, fed, flow, env_steps>>

\* Another process removes a file or an empty directory (never the working
\* directory of the session) while the session waits for a line.
EnvRemove(path) ==
    /\ mode \in {"c", "m"} /\ Running
    /\ env_steps < MaxEnvSteps
    /\ path \in DOMAIN fs /\ path # <<>> /\ path # cd
    /\ \A q \in DOMAIN fs : q = <<>> \/ Parent(q) # path
    /\ fs' = remove(fs, path)
    /\ env_steps' = env_steps + 1
    /\ UNCHANGED <<mode, accepts_input, crashed, cd, marked, current_menu,
                   current_menu_gen, out, calls, raised, flips, fed, flow>>

Env == \E path \in DOMAIN fs : EnvRemove(path)

NextLine ==
    \/ \E line \in CommandLines : LineInput(line)
    \/ EndOfInput
    \/ Env

NextMenu ==
    \/ \E line \in MenuLines : MenuInput(line)
    \/ EndOfInput
    \/ Env

Next ==
    \/ \E line \in CommandLines : LineInput(line)
    \/ \E line \in MenuLines : MenuInput(line)
    \/ EndOfInput
    \/ Env

\* The lines that display the marked paths and that move them.
ShowmarkLine == CmdLine(<<<<"showmark">>>>)

MovemarkedLine == CmdLine(<<<<"mvmark">>>>)

\* A session of CommandlineMode in which, as long as input is accepted, the
\* marked paths are displayed again and again and moved again and again.
SpecLineRepeating ==
    /\ InitLine /\ [][NextLine]_vars
    /\ WF_vars(LineInput(ShowmarkLine))
    /\ WF_vars(LineInput(MovemarkedLine))

\* A session of CommandlineMode, of MenuMode, and of either.
SpecLine == InitLine /\ [][NextLine]_vars

SpecMenu == InitMenu /\ [][NextMenu]_vars

Spec == (InitLine \/ InitMenu) /\ [][Next]_vars

-----------------------------------------------------------------------------
(* Claims about MenuListing                                                *)

IsListing == current_menu.kind = "MenuListing"

NoDuplicates(s) == \A i, j \in 1..Len(s) : s[i] = s[j] => i = j

\* C1 as stated: after construction and after every input, a listing has
\* 0 <= page < page_count, whatever the number of choices (zero included).
C1_PageBelowPageCount ==
    IsListing =>
        /\ 0 <= current_menu.page
        /\ current_menu.page < page_count(current_menu)

\* C1 amended: after construction and after every input, a listing with at
\* least one choice has 0 <= page < page_count = ceil(L / P); a listing with
\* no choice has page = 0 and page_count = 0.
C1_PageInRange ==
    IsListing =>
        LET L == Len(current_menu.choices)
            P == current_menu.page_size
        IN  /\ page_count(current_menu) * P >= L
            /\ (page_count(current_menu) - 1) * P < L \/ L = 0
            /\ IF L = 0
               THEN current_menu.page = 0 /\ page_count(current_menu) = 0
               ELSE 0 <= current_menu.page /\ current_menu.page < page_count(current_menu)

\* C1 witness: a listing of several pages has been turned to its last page.
C1_Witness ==
    /\ IsListing
    /\ page_count(current_menu) >= 3
    /\ current_menu.page = page_count(current_menu) - 1

\* The lines C2 calls invalid: not a number, zero or negative, or greater
\* than the count of rows rendered on the current page.
InvalidLine(m, line) ==
    \/ ~int(line).ok
    \/ int(line).val <= 0
    \/ int(line).val > Len(m.page_items)

\* C2: an invalid line fed to a listing leaves page, chosen and is_fulfilled
\* unchanged, raises nothing, and sets the error that the next render shows
\* (so "0" does not select the last rendered row).
C2_InvalidInputRejected ==
    IsListing =>
        \A line \in StepLines :
            InvalidLine(current_menu, line) =>
                LET r == MenuListing_input(current_menu, line)
                IN  /\ r.menu.page = current_menu.page
                    /\ r.menu.chosen = current_menu.chosen
                    /\ r.menu.is_fulfilled = current_menu.is_fulfilled
                    /\ r.raised = None
                    /\ r.menu.error # None
                    /\ \E i \in 1..Len(MenuListing_str(r.menu)) :
                           MenuListing_str(r.menu)[i] = <<"Error", r.menu.error>>

\* C2 witness: a listing with rendered rows holds the error of an invalid line.
C2_Witness ==
    /\ IsListing
    /\ current_menu.error = InvalidInput
    /\ Len(current_menu.page_items) >= 2
    /\ raised = None

\* C3: on a listing that is neither single-choice nor read-only, chosen holds
\* exactly the values chosen at construction with those selected an odd number
\* of times flipped (so selecting a row twice restores the set, whatever
\* happened in between), and after any row selection holds no value twice.
C3_ToggleTwiceRestores ==
    (IsListing /\ ~current_menu.single_choice /\ ~current_menu.read_only) =>
        /\ SeqToSet(current_menu.chosen) = SymDiff(flips.base, flips.odd)
        /\ flips.odd \cup flips.again # {} => NoDuplicates(current_menu.chosen)

\* C3 witness: a row was selected twice, another value is flipped, and the
\* twice-selected value is back to what it was.
C3_Witness ==
    /\ IsListing /\ ~current_menu.single_choice /\ ~current_menu.read_only
    /\ \E v \in flips.again \ flips.odd :
          /\ flips.odd # {}
          /\ (v \in SeqToSet(current_menu.chosen)) = (v \in flips.base)

\* What C4 says of a single-choice listing: chosen is empty and the step is
\* not fulfilled until a data row is selected; the first selection of a data
\* row fulfils it in that very call and leaves chosen holding just the value
\* of that row.
FirstSelectionFulfils ==
    flips.again = {} =>
        /\ flips.odd = {} =>
              current_menu.chosen = <<>> /\ ~current_menu.is_fulfilled
        /\ \A v \in flips.odd :
              flips.odd = {v} =>
                 current_menu.chosen = <<v>> /\ current_menu.is_fulfilled

-----------------------------------------------------------------------------
(* Claims about MenuMode                                                   *)

\* The session as the commands see it.
Session == World(fs, cd, marked)

\* What MenuMode.process_input would leave, were line read now.
ProcessMenuLine(line, order) ==
    MenuMode_process_input(current_menu, current_menu_gen, Session, line, order)

\* The lines that may be read at the current step.
LinesNow == IF current_menu.kind = "MenuPrompt" THEN PromptLines ELSE MenuLines

\* The pending sequence is a generator that raises when it is resumed.
SequenceRaises(step, order) ==
    /\ current_menu_gen.kind = "generator"
    /\ next(current_menu_gen, step, Session, order).e.raised # None

\* What the pending sequence yields when it is resumed, or NoMenu when it
\* has nothing left (an exhausted generator, or the empty tuple).
NextStep(step, order) ==
    IF current_menu_gen.kind = "generator"
    THEN next(current_menu_gen, step, Session, order)
    ELSE Exhausted(Start(Session))

\* C5: in MenuMode every line is fed to the current step only; a step left
\* unfulfilled (no signal raised) stays current and the pending sequence is
\* untouched; a fulfilled step is followed by the next step of the sequence,
\* or by a rebuilt root menu when the sequence has nothing left.
C5_ControllerAdvances ==
    (mode = "m" /\ Running) =>
        \A line \in LinesNow : \A order \in OrdersFor(line) :
            LET i == MenuResponse_input(current_menu, line)
                o == ProcessMenuLine(line, order)
            IN  /\ o.fed = i.menu
                /\ (i.raised = None /\ ~i.menu.is_fulfilled) =>
                      /\ o.menu = i.menu
                      /\ o.gen = current_menu_gen
                      /\ o.w = Session
                /\ (i.raised = None /\ i.menu.is_fulfilled
                        /\ ~SequenceRaises(i.menu, order)) =>
                      /\ o.crashed = None
                      /\ IF NextStep(i.menu, order).step # NoMenu
                         THEN /\ o.menu = NextStep(i.menu, order).step
                              /\ o.gen = NextStep(i.menu, order).gen
                         ELSE /\ o.menu = RootMenu(o.w)
                              /\ o.gen = RootGen

\* The listing of a flow on which "Cancel and start over" was entered last.
Cancelled == mode = "m" /\ raised = "StartOverException"

\* A listing with "Cancel and start over" and two pages, after any selection:
\* on its first page, and after "Next page".
PagedListings ==
    LET first ==
            { MenuListing(<<Title("", <<"title">>)>>,
                          <<ChoiceOf(<<"u">>), ChoiceOf(<<"v">>), ChoiceOf(<<"w">>)>>,
                          FALSE, chosen, MaxPageSize, TRUE, FALSE) :
                chosen \in { c \in SeqsUpTo(Values, MaxChosen) : NoDuplicates(c) } }
    IN  first \cup { MenuListing_render_page(MenuListing_inc_page(m, 1)) : m \in first }

\* The line that selects the last item of the page: "Cancel and start over".
CancelLine(m) == <<Digits[Len(m.page_handlers) + 1]>>

\* o is what MenuMode.process_input left: if StartOverException was raised,
\* the root menu with its fresh generator, and the marked set and current
\* directory of the start of the flow
CancelRestores(o) ==
    o.raised = "StartOverException" =>
        /\ o.w.marked = flow.marked
        /\ o.w.cd = flow.cd
        /\ o.menu.kind = "MenuListing"
        /\ o.menu.choices = RootChoices
        /\ o.menu.chosen = <<>>
        /\ ~o.menu.is_fulfilled
        /\ o.gen = RootGen
        /\ o.crashed = None /\ o.accepts_input

\* C6: "Cancel and start over" entered in a listing of a flow abandons the
\* flow: the root menu with its fresh generator is current, and the marked
\* set and the current directory are those of the start of the flow; so it
\* is for a listing on any page and with any selection in place of the
\* current one.
C6_CancelAbandonsFlow ==
    (mode = "m" /\ Running) =>
        /\ \A line \in LinesNow : CancelRestores(ProcessMenuLine(line, <<>>))
        /\ current_menu_gen.pc = "listing" =>
              \A m \in PagedListings :
                  LET o == MenuMode_process_input(m, current_menu_gen, Session,
                                                  CancelLine(m), <<>>)
                  IN  /\ o.raised = "StartOverException"
                      /\ o.w = Session
                      /\ o.menu = RootMenu(Session)
                      /\ o.gen = RootGen
                      /\ o.crashed = None /\ o.accepts_input

\* C6 witness: a mark/unmark listing was cancelled after row selections that
\* differ from the marked set, and the root menu is current.
C6_Witness ==
    /\ Cancelled
    /\ fed.kind = "MenuListing" /\ fed.with_exit /\ ~fed.single_choice
    /\ fed.chosen # <<>>
    /\ SeqToSet(fed.chosen) # marked
    /\ marked # {}
    /\ current_menu.kind = "MenuListing" /\ current_menu.choices = RootChoices

\* C7: when the resumed sequence raises ValueError the Alert with the error
\* is current and the sequence is dropped; whatever line comes next, the
\* root menu is current after it and the session accepts input.
C7_ErrorAlertAcknowledged ==
    (mode = "m" /\ Running /\ raised = "ValueError") =>
        /\ current_menu.kind = "MenuAlert"
        /\ current_menu_gen = EmptyTuple
        /\ \A line \in MenuLines :
              LET o == ProcessMenuLine(line, <<>>)
              IN  /\ o.crashed = None
                  /\ o.accepts_input
                  /\ o.menu = RootMenu(o.w)
                  /\ o.gen = RootGen

-----------------------------------------------------------------------------
(* Claims about the session                                                *)

\* C8: no line ever ends the process with an uncaught exception.
C8_NoUncaughtError == crashed = None

\* What _move() would do, were it run now.
MoveNow == move(Session)

\* path is marked, and its name is the name of an entry of the current
\* directory.
TargetExists(path) == path \in marked /\ exists(fs, target_path(Session, path))

\* C9: when _move() runs, every marked path whose name is the name of an
\* entry of the current directory is not renamed, the entry stays as it is,
\* the line "Unable to move path: ...: File exists" is there for it, it stays
\* marked, and every other marked path has its own line (one refused with
\* "File exists" because an earlier move of the same run put an entry of its
\* name there is not renamed and stays marked as well).
C9_ExistingTargetKept ==
    (mode = "c" /\ Running) =>
        \A path \in marked :
            TargetExists(path) =>
                /\ \A i \in 1..Len(MoveNow.calls) :
                      MoveNow.calls[i].f = "rename" =>
                          /\ MoveNow.calls[i].a # path
                          /\ MoveNow.calls[i].b # target_path(Session, path)
                /\ exists(MoveNow.w.fs, target_path(Session, path))
                /\ MoveNow.w.fs[target_path(Session, path)] = fs[target_path(Session, path)]
                /\ \E i \in 1..Len(MoveNow.out) :
                      MoveNow.out[i] = Msg("Unable to move path", path, "File exists")
                /\ path \in MoveNow.w.marked
                /\ \A q \in marked \ {path} :
                      \E i \in 1..Len(MoveNow.out) :
                          /\ MoveNow.out[i].arg = q
                          /\ MoveNow.out[i].text \in {"Moved path", "Unable to move path"}
                /\ \A q \in marked \ {path} :
                      (\E i \in 1..Len(MoveNow.out) :
                          MoveNow.out[i] = Msg("Unable to move path", q, "File exists"))
                      => /\ q \in MoveNow.w.marked
                         /\ \A i \in 1..Len(MoveNow.calls) :
                               MoveNow.calls[i].f = "rename" => MoveNow.calls[i].a # q

\* C9 witness: mvmark ran with two paths marked; one was refused with "File
\* exists" and is still marked, the other was moved.
C9_Witness ==
    /\ mode = "c"
    /\ Len(out) = 3
    /\ out[1].text = "Moving marked paths to"
    /\ \E i, j \in 2..3 :
          /\ out[i].text = "Unable to move path" /\ out[i].detail = "File exists"
          /\ out[i].arg \in marked
          /\ out[j].text = "Moved path"
          /\ out[j].arg \notin marked

\* C10: mvmark with nothing marked responds 'Nothing to move' and nothing
\* else, calls nothing of os, and leaves the session as it was.
C10_NothingToMove ==
    (mode = "c" /\ Running /\ marked = {}) =>
        LET o == CommandlineMode_process_input(Session, CmdLine(<<<<"mvmark">>>>))
        IN  /\ o.out = <<Msg("Nothing to move: no paths marked", <<>>, "")>>
            /\ o.calls = <<>>
            /\ o.w = Session
            /\ o.crashed = None


\* The status lines of _move(), were it run now: all but the leading line.
StatusLines == Tail(MoveNow.out)

\* C11: when _move() runs, its lines are the summary line and then one
\* status line for each marked path, in ascending order of path; a path
\* reported "Moved path" is now the entry of its name in the current
\* directory and is not marked; a path reported "Unable to move path" is
\* still marked; the marked set is exactly the paths reported unable.
C11_MarkedIsFailedMoves ==
    (mode = "c" /\ Running /\ marked # {}) =>
        /\ MoveNow.out[1] = Msg("Moving marked paths to", cd, "")
        /\ Len(StatusLines) = Cardinality(marked)
        /\ MoveNow.w.cd = cd
        /\ \A i \in 1..Len(StatusLines) :
              /\ StatusLines[i].arg \in marked
              /\ StatusLines[i].text \in {"Moved path", "Unable to move path"}
              /\ StatusLines[i].text = "Moved path" =>
                    /\ StatusLines[i].arg \notin MoveNow.w.marked
                    /\ ~exists(MoveNow.w.fs, StatusLines[i].arg)
                    /\ exists(MoveNow.w.fs, target_path(Session, StatusLines[i].arg))
                    /\ \E k \in 1..Len(MoveNow.calls) :
                          MoveNow.calls[k] =
                              Call("rename", StatusLines[i].arg,
                                   target_path(Session, StatusLines[i].arg))
              /\ StatusLines[i].text = "Unable to move path" =>
                    StatusLines[i].arg \in MoveNow.w.marked
        /\ \A i, j \in 1..Len(StatusLines) :
              i < j => StrLess(StatusLines[i].arg, StatusLines[j].arg)
        /\ MoveNow.w.marked =
              { StatusLines[i].arg :
                  i \in { k \in 1..Len(StatusLines) :
                            StatusLines[k].text = "Unable to move path" } }

\* C11 witness: mvmark ran with two paths marked, both were moved, and
\* nothing is marked.
C11_Witness ==
    /\ mode = "c"
    /\ Len(out) = 3
    /\ out[1] = Msg("Moving marked paths to", cd, "")
    /\ out[2].text = "Moved path" /\ out[3].text = "Moved path"
    /\ exists(fs, Append(cd, out[2].arg[Len(out[2].arg)]))
    /\ exists(fs, Append(cd, out[3].arg[Len(out[3].arg)]))
    /\ marked = {}


-----------------------------------------------------------------------------
(* Claims about the commands                                               *)

\* The Confirm of the exit flow is the current step.
AtExitConfirm ==
    /\ mode = "m" /\ Running
    /\ current_menu.kind = "MenuConfirm"
    /\ current_menu_gen = Generator("ExitCommand", "confirm")

\* C12: in MenuMode the exit signal is raised only by the answer "y" to the
\* Confirm of the exit flow ("n" brings back the root menu with input still
\* accepted, anything else leaves the Confirm unfulfilled with its error); in
\* CommandlineMode the line "exit" raises it whatever the session is; after
\* the signal the session accepts no input and nothing more happens.
C12_ExitProtocol ==
    /\ (mode = "m" /\ raised = "ExitException") =>
          /\ fed.kind = "MenuConfirm" /\ fed.is_confirmed = "True"
          /\ ~accepts_input /\ crashed = None
          /\ out = <<Msg("exiting", <<>>, "")>>
    /\ AtExitConfirm =>
          \A line \in MenuLines :
              LET o == ProcessMenuLine(line, <<>>)
              IN  CASE line = <<"y">> ->
                          /\ o.raised = "ExitException" /\ ~o.accepts_input
                          /\ o.w = Session /\ o.crashed = None
                    [] line = <<"n">> ->
                          /\ o.raised = None /\ o.accepts_input /\ o.crashed = None
                          /\ o.menu = RootMenu(Session) /\ o.gen = RootGen
                          /\ o.w = Session /\ o.out = <<>>
                    [] OTHER ->
                          /\ o.raised = None /\ o.accepts_input /\ o.crashed = None
                          /\ o.menu = [current_menu EXCEPT
                                          !.error = "Enter either \"y\" or \"n\"."]
                          /\ ~o.menu.is_fulfilled
                          /\ o.gen = current_menu_gen
                          /\ o.w = Session /\ o.out = <<>>
    /\ (mode = "c" /\ Running) =>
          LET o == CommandlineMode_process_input(Session, CmdLine(<<<<"exit">>>>))
          IN  /\ ~o.accepts_input /\ o.crashed = None
              /\ o.w = Session
              /\ o.out = <<Msg("exiting", <<>>, "")>>
    /\ (mode \in {"c", "m"} /\ ~accepts_input) => ~ENABLED <<Next>>_vars

\* C12 witness: the Confirm of the exit flow was answered "y" and the session
\* accepts no input.
C12_Witness ==
    /\ mode = "m" /\ raised = "ExitException"
    /\ fed.kind = "MenuConfirm" /\ fed.is_confirmed = "True" /\ fed.error # None
    /\ ~accepts_input


\* The targets given to change-directory: a name, "..", a path of two names,
\* and an absolute path.
ChangeDirTargets == { <<"a">>, <<"b">>, <<"..">>, <<"a", "a">>, <<"/", "b">> }

\* The target resolved against the current directory.
Resolved(target) ==
    CASE target = <<"..">> -> IF cd = <<>> THEN <<>> ELSE Parent(cd)
      [] target = <<"/", "b">> -> <<"b">>
      [] OTHER -> cd \o target

\* C13: change_dir with a target that resolves to no existing directory
\* raises ValueError naming the resolved path and changes neither the current
\* directory nor the marked set; with a target that resolves to an existing
\* directory it makes that directory the current one.  So it is for the line
\* "cd <target>".
C13_ChangeDirChecked ==
    (mode = "c" /\ Running) =>
        \A target \in ChangeDirTargets :
            LET e == change_dir(Session, target)
                o == CommandlineMode_process_input(Session, CmdLine(<<<<"cd">>, target>>))
            IN  IF isdir(fs, Resolved(target))
                THEN /\ e.raised = None
                     /\ e.w = [Session EXCEPT !.cd = Resolved(target)]
                     /\ o.w = e.w
                     /\ o.out = <<Msg("Changed current directory to", Resolved(target), "")>>
                     /\ o.accepts_input /\ o.crashed = None
                ELSE /\ e.raised = "ValueError"
                     /\ e.error = Msg("Not an existing directory", Resolved(target), "")
                     /\ e.w = Session
                     /\ \A i \in 1..Len(e.calls) : e.calls[i].f # "chdir"
                     /\ o.w = Session
                     /\ o.out = <<Msg("Command invocation error", Resolved(target),
                                      "Not an existing directory")>>
                     /\ o.accepts_input /\ o.crashed = None

\* C13 witness: "cd" was given a target that is not a directory, the error
\* names the resolved path, and the current directory is another one.
C13_Witness ==
    /\ mode = "c" /\ accepts_input
    /\ Len(out) = 1
    /\ out[1].text = "Command invocation error"
    /\ out[1].detail = "Not an existing directory"
    /\ ~isdir(fs, out[1].arg)
    /\ cd # out[1].arg /\ cd # <<>>
    /\ marked # {}


\* The argument count of a line of CommandlineMode is wrong for its command.
WrongArgCount(line) ==
    /\ line.quoting = "balanced" /\ line.tokens # <<>>
    /\ LET name == Head(line.tokens)
           n == Len(line.tokens) - 1
       IN  \/ name = <<"cd">> /\ n # 1
           \/ name \in {<<"touch">>, <<"mark">>, <<"unmark">>} /\ n = 0
           \/ name \in {<<"showmark">>, <<"mvmark">>, <<"help">>, <<"exit">>} /\ n > 0

Children(d) == { p \in DOMAIN fs : p # <<>> /\ Parent(p) = d }

\* C15: list_dir of a directory has one entry for each child, labelled "d"
\* for a directory and "f" for a file, in ascending order of the names of
\* the children whatever their labels.
C15_ListingSortedByName ==
    (mode = "c" /\ Running) =>
        \A d \in { p \in DOMAIN fs : isdir(fs, p) } :
            LET l == list_dir(fs, d, FALSE, FALSE).listing
            IN  /\ Len(l) = Cardinality(Children(d))
                /\ \A i \in 1..Len(l) :
                      /\ d \o l[i].value \in Children(d)
                      /\ l[i].title.name = l[i].value
                      /\ l[i].title.prefix =
                            (IF isdir(fs, d \o l[i].value) THEN "d" ELSE "f")
                /\ \A i, j \in 1..Len(l) :
                      i < j => StrLess(l[i].value, l[j].value)


-----------------------------------------------------------------------------
(* More claims about MenuListing                                           *)

\* The number of data rows of the current page: the choices from page * P
\* up to, not including, page * P + P.
DataRowCount(m) ==
    LET rest == Len(m.choices) - m.page * m.page_size
    IN  IF rest < 0 THEN 0 ELSE Min(rest, m.page_size)

\* The rows below the data rows, in order.
ControlRows(m) ==
    (IF ~m.read_only /\ ~m.single_choice THEN <<"Done">> ELSE <<>>)
    \o (IF m.page > 0 THEN <<"Previous page">> ELSE <<>>)
    \o (IF Len(m.choices) > (m.page + 1) * m.page_size THEN <<"Next page">> ELSE <<>>)
    \o (IF m.with_exit THEN <<"Cancel and start over">> ELSE <<>>)

\* The line that is the number k.
NumberLine(k) == <<Digits[k + 1]>>

\* What entering the number of the row called name does to the listing m.
RowEffect(m, name, r) ==
    CASE name = "Done" ->
            /\ r.handler.h = "_fulfill"
            /\ r.menu.is_fulfilled
            /\ r.menu.chosen = m.chosen /\ r.menu.page = m.page
      [] name = "Previous page" ->
            /\ r.handler.h = "_inc_page"
            /\ r.menu.page = m.page - 1
            /\ r.menu.is_fulfilled = m.is_fulfilled /\ r.menu.chosen = m.chosen
      [] name = "Next page" ->
            /\ r.handler.h = "_inc_page"
            /\ r.menu.page = m.page + 1
            /\ r.menu.is_fulfilled = m.is_fulfilled /\ r.menu.chosen = m.chosen
      [] name = "Cancel and start over" ->
            /\ r.handler.h = "_exit"
            /\ r.raised = "StartOverException"

\* C16: the rows of the current page and the handlers of the numbers 1, 2,
\* ... are the data rows of the page, then "Done" (neither read-only nor
\* single-choice), "Previous page" (page > 0), "Next page" (choices beyond
\* the page), "Cancel and start over" (with_exit); the number k selects the
\* k-th row; the page rows move the page by one and fulfil nothing; "Done"
\* fulfils and leaves chosen alone.
C16_PageRowsInOrder ==
    IsListing =>
        LET m == current_menu
            n == DataRowCount(m)
            c == ControlRows(m)
        IN  /\ Len(m.page_items) = n + Len(c)
            /\ Len(m.page_handlers) = n + Len(c)
            /\ \A i \in 1..n :
                  /\ m.page_items[i].title = m.choices[m.page * m.page_size + i].title
                  /\ m.page_handlers[i] =
                        Handler("_toggle_choice",
                                m.choices[m.page * m.page_size + i].value, 0)
                  /\ MenuListing_input(m, NumberLine(i)).handler = m.page_handlers[i]
            /\ \A j \in 1..Len(c) :
                  /\ m.page_items[n + j] = ControlItem(c[j])
                  /\ RowEffect(m, c[j], MenuListing_input(m, NumberLine(n + j)))

\* C16 witness: a listing on its second page, after "Next page", whose page
\* has a data row and all four rows below it.
C16_Witness ==
    /\ IsListing
    /\ current_menu.page = 1
    /\ DataRowCount(current_menu) = 1
    /\ Len(ControlRows(current_menu)) = 4
    /\ Len(current_menu.page_handlers) = 5
    /\ current_menu.chosen # <<>>

\* A listing like the one ListCommand._menu_run yields: read-only and not
\* single-choice.
ReadOnlyListing ==
    IsListing /\ current_menu.read_only /\ ~current_menu.single_choice

\* r is what input left of m after the selection of a data row: chosen, page
\* and is_fulfilled are those of m
RowSelectionInert(m, r) ==
    r.handler.h = "_toggle_choice" =>
        /\ r.raised = None
        /\ r.menu.chosen = m.chosen
        /\ r.menu.page = m.page
        /\ r.menu.is_fulfilled = m.is_fulfilled

\* The sequence of ListCommand._menu_run, suspended at its listing.
ListFlow == Generator("ListCommand", "listing")

\* o is what MenuMode.process_input left of the list-directory flow at the
\* listing m: the flow still at its listing, or the root menu after "Cancel
\* and start over"
ListFlowKeptOrCancelled(m, o) ==
    \/ /\ o.raised = None /\ o.crashed = None /\ o.accepts_input
       /\ o.gen = ListFlow /\ ~o.fresh
       /\ o.menu.kind = "MenuListing" /\ ~o.menu.is_fulfilled
       /\ o.menu.read_only /\ ~o.menu.single_choice
       /\ o.menu.choices = m.choices /\ o.menu.chosen = m.chosen
    \/ /\ o.raised = "StartOverException" /\ o.crashed = None /\ o.accepts_input
       /\ o.handler.h = "_exit"
       /\ o.menu = RootMenu(o.w) /\ o.gen = RootGen

\* C18: in a read-only listing that is not single-choice, selecting a data
\* row changes neither chosen, page nor is_fulfilled; no row of it is "Done"
\* and it is never fulfilled; as the step of the list-directory flow of
\* MenuMode it is left only through "Cancel and start over".
C18_ReadOnlyListingInert ==
    ReadOnlyListing =>
        /\ ~current_menu.is_fulfilled
        /\ \A i \in 1..Len(current_menu.page_items) :
              /\ current_menu.page_items[i] # ControlItem("Done")
              /\ current_menu.page_handlers[i].h # "_fulfill"
        /\ \A line \in StepLines :
              /\ RowSelectionInert(current_menu, MenuListing_input(current_menu, line))
              /\ current_menu.with_exit =>
                    ListFlowKeptOrCancelled(
                        current_menu,
                        MenuMode_process_input(current_menu, ListFlow,
                                               World(InitFs, <<>>, {}), line, <<>>))

\* C18 witness: a read-only listing that is not single-choice, on its second
\* page, one data row of which was selected; "Cancel and start over" is one
\* of its rows.
C18_Witness ==
    /\ ReadOnlyListing
    /\ current_menu.with_exit
    /\ current_menu.page = 1
    /\ flips.odd # {}
    /\ current_menu.chosen # <<>>
    /\ ~current_menu.is_fulfilled


-----------------------------------------------------------------------------
(* More claims about the session                                           *)

\* Some marked path does not exist.
StaleMarked == \E p \in marked : ~exists(fs, p)

\* C17: while the marked paths are displayed and moved again and again, a
\* marked path that stopped existing does not stay marked for ever.
C17_StaleEventuallyUnmarked ==
    (Running /\ StaleMarked) ~> (~StaleMarked \/ ~Running)


\* C19: as long as nothing but the program changes the filesystem, the
\* listing of the marked paths is not empty when some path is marked, and
\* the assert of MovemarkedCommand._menu_run (line 465) does not fail.
C19_MarkedListingNotEmpty ==
    (mode = "m" /\ env_steps = 0) =>
        /\ marked # {} => list_marked(fs, marked) # <<>>
        /\ crashed # "AssertionError"


\* The mark/unmark flow is at its listing.
AtToggleListing ==
    /\ mode = "m" /\ Running
    /\ IsListing
    /\ current_menu_gen = Generator("ToggleMarkCommand", "listing")

\* The values of the rows of listing m, on all its pages.
RowValues(m) == {m.choices[i].value : i \in 1..Len(m.choices)}

\* o is what MenuMode.process_input left after "Done" at the listing m of
\* the mark/unmark flow, f being the selections of rows so far
DoneSetsMarked(m, f, o) ==
    o.handler.h = "_fulfill" =>
        /\ o.raised = None /\ o.crashed = None
        /\ o.fed.is_fulfilled
        /\ o.w.marked = SeqToSet(m.chosen)
        /\ o.w.marked = SeqToSet(o.fed.chosen)
        /\ \A p \in marked \ RowValues(m) : p \in o.w.marked
        /\ \A p \in RowValues(m) :
              p \in o.w.marked <=> ((p \in marked) # (p \in f.odd))
        /\ o.w.marked \subseteq marked \cup RowValues(m)
        /\ o.w.fs = fs /\ o.w.cd = cd
        /\ o.menu = RootMenu(o.w) /\ o.gen = RootGen

\* C20: "Done" in the mark/unmark flow makes marked the final chosen of the
\* listing, which started as the whole marked set: a marked path that is no
\* row of the listing stays marked, and a path that is a row ends up marked
\* iff its row was selected an odd number of times while it was not marked,
\* or an even number of times while it was.
C20_DoneSetsMarkedToChosen ==
    AtToggleListing =>
        /\ flips.base = marked
        /\ flips.odd \subseteq RowValues(current_menu)
        /\ \A line \in MenuLines :
              DoneSetsMarked(current_menu, flips, ProcessMenuLine(line, <<>>))

\* C20 witness: "Done" has just ended a mark/unmark flow whose listing has a
\* marked row and an unmarked one, while a path that is no row of it is
\* marked as well.
C20_Witness ==
    /\ mode = "m" /\ Running /\ raised = None
    /\ fed.kind = "MenuListing" /\ fed.is_fulfilled /\ ~fed.single_choice
    /\ current_menu_gen = RootGen
    /\ marked = SeqToSet(fed.chosen)
    /\ marked \ RowValues(fed) # {}
    /\ marked \cap RowValues(fed) # {}
    /\ RowValues(fed) \ marked # {}


\* The kinds of step there are.
StepKinds == {"MenuListing", "MenuAlert", "MenuConfirm", "MenuPrompt"}

\* i is what input left of a step: if it left the step fulfilled, the step
\* is still fulfilled after any further line
StaysFulfilled(i) ==
    (i.raised = None /\ i.menu.is_fulfilled) =>
        \A again \in MenuLines :
            MenuResponse_input(i.menu, again).menu.is_fulfilled

\* The controller of MenuMode is about to render the step and read a line,
\* and the step exists and is not fulfilled; fulfilled by whatever line, it
\* stays fulfilled.
StepAwaitsInput ==
    (mode = "m" /\ Running) =>
        /\ current_menu.kind \in StepKinds
        /\ ~current_menu.is_fulfilled
        /\ \A line \in LinesNow :
              StaysFulfilled(MenuResponse_input(current_menu, line))

\* C21: in MenuMode, whenever a line is about to be read, there is a current
\* step and it is not fulfilled; a fulfilled step stays fulfilled; and every
\* step of the session, the reading of a line included, starts at a step
\* that is not fulfilled and feeds the line to that step.
C21_StepUnfulfilledAtPrompt ==
    /\ []StepAwaitsInput
    /\ [][ mode = "m" =>
              /\ ~current_menu.is_fulfilled
              /\ fed' # fed => fed'.kind = current_menu.kind
          ]_vars

\* C21 witness: the last line fulfilled the confirmation of a flow, and the
\* Alert the flow yielded next is current, not fulfilled, about to be
\* rendered.
C21_Witness ==
    /\ mode = "m" /\ Running
    /\ fed.kind = "MenuConfirm" /\ fed.is_fulfilled
    /\ current_menu.kind = "MenuAlert" /\ ~current_menu.is_fulfilled
    /\ current_menu_gen.kind = "generator"

=============================================================================
